---- MODULE Spec2Model ----
(***************************************************************************)
(* Model of the Algo_trading_bot backtests:                                *)
(*   src/backtest.py        run(): 15m rule backtest with IBKR costs,      *)
(*                          percentage stop and equity compounding         *)
(*   src/research_algo.py   compute_daily_points(): fixed-point stop       *)
(*   src/range_breakout.py  module body: 1:1 range breakout                *)
(*                                                                         *)
(* Python floats are modelled as decimal fixed-point numbers with four     *)
(* fractional digits (an integer count of 1/10000): every constant of the  *)
(* scripts is a multiple of 0.0001.  Sums and differences are exact, and   *)
(* every product and quotient is rounded to the nearest representable      *)
(* value, as each IEEE-754 operation is.  NaN is a value of its own.       *)
(* The monthly share volume is compared with thresholds up to 100 000 000  *)
(* shares, so it is kept as whole shares plus a fraction.                  *)
(***************************************************************************)
EXTENDS Integers, Sequences, FiniteSets, TLC

\* ------------------------------------------------------------------------
\* Arithmetic of the number representation
\* ------------------------------------------------------------------------

Unit == 10^4

\* float("inf"): above every number of the model
Infinity == 2^30 + (2^30 - 1)

\* np.nan: below every number of the model
NaN == -Infinity

Abs(x) == IF x < 0 THEN -x ELSE x

Sgn(x) == IF x < 0 THEN -1 ELSE IF x > 0 THEN 1 ELSE 0

Max(a, b) == IF a >= b THEN a ELSE b

Min(a, b) == IF a <= b THEN a ELSE b

\* n / d rounded to nearest, n >= 0, d > 0
RoundDiv(n, d) == (2 * n + d) \div (2 * d)

\* a * b for a, b >= 0, computed on the split operands so that no
\* intermediate value leaves the machine range
FMulPos(a, b) ==
    LET qa == a \div Unit
        ra == a % Unit
        qb == b \div Unit
        rb == b % Unit
    IN  qa * qb * Unit + qa * rb + ra * qb + RoundDiv(ra * rb, Unit)

FMul(a, b) == Sgn(a) * Sgn(b) * FMulPos(Abs(a), Abs(b))

\* a / b for a >= 0, b > 0: long division to four fractional digits, then
\* rounding on the remainder
FDivPos(a, b) ==
    LET d0 == a \div b
        r0 == a % b
        d1 == (r0 * 10) \div b
        r1 == (r0 * 10) % b
        d2 == (r1 * 10) \div b
        r2 == (r1 * 10) % b
        d3 == (r2 * 10) \div b
        r3 == (r2 * 10) % b
        d4 == (r3 * 10) \div b
        r4 == (r3 * 10) % b
    IN  d0 * Unit + d1 * 1000 + d2 * 100 + d3 * 10 + d4
          + (IF 2 * r4 >= b THEN 1 ELSE 0)

\* float division; x / 0 is NaN for x = 0 in pandas (and +-inf otherwise,
\* which no definition below produces: see DrawdownOf)
FDiv(a, b) ==
    IF b = 0 THEN NaN ELSE Sgn(a) * Sgn(b) * FDivPos(Abs(a), Abs(b))

\* the monthly volume: whole shares w and a fraction f of a share
VolZero == [w |-> 0, f |-> 0]

\* a plausible slip: the month's volume left where it was
VolAdd_none(v, sh) == v

\* monthly_vol[month_key] += sh
VolAdd(v, sh) ==
    [w |-> v.w + (v.f + sh) \div Unit, f |-> (v.f + sh) % Unit]

\* v <= t for a threshold of t whole shares
VolLeq(v, t) == t = Infinity \/ v.w < t \/ (v.w = t /\ v.f = 0)

\* ------------------------------------------------------------------------
\* src/backtest.py: constants
\* ------------------------------------------------------------------------

START_EQUITY == 1000000

ALLOC_PCT == 10000

FRACTIONAL_SHARES == TRUE

MIN_FRACTIONAL_SHARES == 1

SLIPPAGE_PER_SHARE == 0

EXTRA_FEES_PER_SHARE == 0

PRICING_PLAN == "pro_fixed"

PF_RATE_PER_SHARE == 50

PF_MIN_PER_ORDER == 10000

PF_MAX_RATE_OF_TRADE == 100

PT_MIN_PER_ORDER == 3500

PT_MAX_RATE_OF_TRADE == 100

PT_TIERS ==
    << [threshold |-> 300000,    rate |-> 35],
       [threshold |-> 3000000,   rate |-> 20],
       [threshold |-> 20000000,  rate |-> 15],
       [threshold |-> 100000000, rate |-> 10],
       [threshold |-> Infinity,  rate |-> 5] >>

LITE_RATE_PER_SHARE == 20

LITE_MIN_PER_ORDER == 30

Plans == {"pro_fixed", "pro_tiered", "lite"}

\* ------------------------------------------------------------------------
\* src/backtest.py: cost model and position sizer
\* ------------------------------------------------------------------------

\* a plausible slip: "<" for "<=" in the tier test
rate_for_tiered_strict(monthly_shares_before) ==
    LET hits == {i \in 1..Len(PT_TIERS) :
                    /\ VolLeq(monthly_shares_before, PT_TIERS[i].threshold)
                    /\ monthly_shares_before
                         # [w |-> PT_TIERS[i].threshold, f |-> 0]}
    IN  IF hits = {} THEN PT_TIERS[Len(PT_TIERS)].rate
        ELSE PT_TIERS[CHOOSE i \in hits : \A j \in hits : i <= j].rate

rate_for_tiered(monthly_shares_before) ==
    LET hits == {i \in 1..Len(PT_TIERS) :
                    VolLeq(monthly_shares_before, PT_TIERS[i].threshold)}
    IN  IF hits = {} THEN PT_TIERS[Len(PT_TIERS)].rate
        ELSE PT_TIERS[CHOOSE i \in hits : \A j \in hits : i <= j].rate

\* a plausible slip: the per-order minimum applied after the 1% cap
commission_floor_last(shares, price, plan, monthly_shares_before) ==
    IF shares <= 0 \/ price <= 0 THEN 0
    ELSE LET trade_value == FMul(price, shares)
         IN  CASE plan = "pro_fixed" ->
                    Max(Min(FMul(PF_RATE_PER_SHARE, shares),
                            FMul(PF_MAX_RATE_OF_TRADE, trade_value)),
                        PF_MIN_PER_ORDER)
               [] plan = "pro_tiered" ->
                    Max(Min(FMul(rate_for_tiered(monthly_shares_before), shares),
                            FMul(PT_MAX_RATE_OF_TRADE, trade_value)),
                        PT_MIN_PER_ORDER)
               [] plan = "lite" ->
                    Max(FMul(LITE_RATE_PER_SHARE, shares), LITE_MIN_PER_ORDER)

\* defined for the three known plans; any other plan raises ValueError
\* (see CallCommission)
commission_one_side(shares, price, plan, monthly_shares_before) ==
    IF shares <= 0 \/ price <= 0 THEN 0
    ELSE LET trade_value == FMul(price, shares)
         IN  CASE plan = "pro_fixed" ->
                    Min(Max(FMul(PF_RATE_PER_SHARE, shares), PF_MIN_PER_ORDER),
                        FMul(PF_MAX_RATE_OF_TRADE, trade_value))
               [] plan = "pro_tiered" ->
                    Min(Max(FMul(rate_for_tiered(monthly_shares_before), shares),
                            PT_MIN_PER_ORDER),
                        FMul(PT_MAX_RATE_OF_TRADE, trade_value))
               [] plan = "lite" ->
                    Max(FMul(LITE_RATE_PER_SHARE, shares), LITE_MIN_PER_ORDER)

full_side_cost(shares, price, plan, monthly_shares_before) ==
    LET comm  == commission_one_side(shares, price, plan, monthly_shares_before)
        slip  == FMul(SLIPPAGE_PER_SHARE, shares)
        extra == FMul(EXTRA_FEES_PER_SHARE, shares)
    IN  comm + slip + extra

\* a plausible slip: the position sized on the magnitude of the equity
shares_for_trade_abs(equity, price) ==
    LET dollars == FMul(Abs(equity), ALLOC_PCT)
    IN  IF dollars <= 0 \/ price <= 0 THEN 0
        ELSE LET raw == FDiv(dollars, price)
             IN  IF FRACTIONAL_SHARES THEN Max(raw, 0)
                 ELSE Max((raw \div Unit) * Unit, 0)

shares_for_trade(equity, price) ==
    LET dollars == FMul(equity, ALLOC_PCT)
    IN  IF dollars <= 0 \/ price <= 0 THEN 0
        ELSE LET raw == FDiv(dollars, price)
             IN  IF FRACTIONAL_SHARES THEN Max(raw, 0)
                 ELSE Max((raw \div Unit) * Unit, 0)

\* ------------------------------------------------------------------------
\* The input: bars of one local trading day, keyed by time of day
\* ------------------------------------------------------------------------

\* number of bar times modelled between the entry bar and the exit bar
NMid == 1

\* longest input, in sessions
MaxDays == 2

FIRST_BAR_TIME == 1

ENTRY_TIME == 2

EXIT_TIME == NMid + 3

MidTimes == (ENTRY_TIME + 1)..(EXIT_TIME - 1)

AfterTime == EXIT_TIME + 1

Bar(o, h, l, c) == [open |-> o, high |-> h, low |-> l, close |-> c]

\* 09:30 bars: green, red, doji (close = open, with a range of 1 point)
FirstBars ==
    { Bar(1000000, 1010000, 1000000, 1010000),
      Bar(1010000, 1010000, 1000000, 1000000),
      Bar(1000000, 1005000, 995000, 1000000) }

\* a 09:30 bar that closes 0.0001 above its open of 200 000: green, and
\* within the relative tolerance 1e-9 of math.isclose
NearDoji == Bar(2000000000, 2000000001, 2000000000, 2000000001)

\* the 09:30 bars of the input of backtest.py
RunFirstBars == FirstBars \cup {NearDoji}

\* 09:45 bars: close 0 (a garbage bar, passed through), 100, 100.5
EntryBars ==
    { Bar(0, 3000000, 0, 0),
      Bar(1001000, 1004000, 1000000, 1000000),
      Bar(1001000, 1005000, 1001000, 1005000) }

\* bars between entry and exit: low 99.9975 and high 101.0025, the 0.5%
\* stops of an entry at 100.5
MidBars ==
    { Bar(1001000, 1010025,  999975, 1001000) }

\* 11:30 bars: close 107, 198, 250
ExitBars ==
    { Bar(1001000, 1070000, 1001000, 1070000),
      Bar(1001000, 1980000, 1001000, 1980000),
      Bar(1001000, 2500000, 1001000, 2500000) }

\* the session goes on after 11:30, with a bar that breaches every level
AfterBar == Bar(1000000, 3000000, 0, 1000000)

\* a choice of at most one bar out of S
Opt(S) == {{}} \cup {{b} : b \in S}

\* rows of the data frame for the bars bs at time t
At(t, bs) ==
    {[t |-> t, open |-> b.open, high |-> b.high, low |-> b.low,
      close |-> b.close] : b \in bs}

\* the choices of bars between entry and exit: each time has a bar or a gap
MidChoices ==
    {UNION {At(t, m[t]) : t \in MidTimes} : m \in [MidTimes -> Opt(MidBars)]}

\* the day's group g of the data frame: a set of rows, at most one a time
Group(fbs, ens, mids, exs) ==
    At(FIRST_BAR_TIME, fbs) \cup At(ENTRY_TIME, ens) \cup mids
      \cup At(EXIT_TIME, exs) \cup At(AfterTime, {AfterBar})

\* g.sort_values(time) as the sequence that iterrows() walks
RECURSIVE SortedByTime(_)
SortedByTime(S) ==
    IF S = {} THEN << >>
    ELSE LET r == CHOOSE x \in S : \A y \in S : x.t <= y.t
         IN  << r >> \o SortedByTime(S \ {r})

\* g[g["t"] == time].iloc[0]
First(g, time) == CHOOSE r \in g : r.t = time

\* ------------------------------------------------------------------------
\* State
\* ------------------------------------------------------------------------

VARIABLES
    prog,         \* the script that runs: "backtest", "research", "range"
    stop,         \* --stop: stop_pct (backtest) or stop_pts (research_algo)
    drop_doji,    \* --drop-doji (research_algo)
    pc,           \* "loop": in the loop over the days; "done"; "crashed"
    day,          \* the groups of the groupby consumed so far
    month_key,    \* month of the group consumed last
    equity,       \* run(): equity
    monthly_vol,  \* run(): monthly_vol, month -> cumulative shares
    rows,         \* the rows appended so far (rows / rows / results)
    loc,          \* run(): locals of the last iteration of the loop
    trades,       \* run(): trades, the sorted ledger with equity_curve_$
    summary,      \* run(): the summary values
    call,         \* cost model: arguments of the call under study
    first_leg,    \* cost model: result for the first leg of the month
    later_leg     \* cost model: result for the leg at call.monthly

vars == << prog, stop, drop_doji, pc, day, month_key, equity, monthly_vol,
           rows, loc, trades, summary, call, first_leg, later_leg >>

runVars == << prog, stop, drop_doji, pc, day, month_key, equity, monthly_vol,
              rows, loc, trades, summary >>

costVars == << call, first_leg, later_leg >>

\* ------------------------------------------------------------------------
\* src/backtest.py: run()
\* ------------------------------------------------------------------------

\* math.isclose(a, b): rel_tol = 1e-09, abs_tol = 0
IsClose(a, b) == a = b \/ Abs(a - b) <= Max(Abs(a), Abs(b)) \div 10^9

\* the locals of an iteration that opened no position
NoLoc ==
    [g |-> {}, dir |-> 0, entry |-> NaN, sh |-> 0,
     stop_size |-> NaN, stop_level |-> NaN,
     subsequent |-> << >>, bar_t |-> 0,
     entry_cost_before |-> VolZero, exit_cost_before |-> VolZero]

\* month_key not in monthly_vol: monthly_vol[month_key] = 0.0
WithMonth(mv, m) ==
    IF m \in DOMAIN mv THEN mv ELSE [k \in DOMAIN mv \cup {m} |->
                                       IF k = m THEN VolZero ELSE mv[k]]

\* a plausible slip: the skip row closed at the starting capital
SkipRow_start(date, reason, fo, fc, entry, gp, grp, eq, mk) ==
    [date |-> date, signal |-> "skip",
     first_bar_open |-> fo, first_bar_close |-> fc,
     entry_price |-> entry, exit_price |-> NaN, exit_reason |-> reason,
     shares |-> 0,
     gross_points |-> gp, gross_pnl |-> 0, gross_ret_pct |-> grp,
     entry_cost |-> 0, exit_cost |-> 0, total_cost |-> 0,
     net_pnl |-> 0, net_ret_pct |-> 0,
     start_equity |-> eq, end_equity |-> START_EQUITY,
     month_key |-> mk, stop_pct |-> NaN, stop_level |-> NaN]

\* run(), lines 174-184, 194-204, 213-223: the row of a skipped session
SkipRow(date, reason, fo, fc, entry, gp, grp, eq, mk) ==
    [date |-> date, signal |-> "skip",
     first_bar_open |-> fo, first_bar_close |-> fc,
     entry_price |-> entry, exit_price |-> NaN, exit_reason |-> reason,
     shares |-> 0,
     gross_points |-> gp, gross_pnl |-> 0, gross_ret_pct |-> grp,
     entry_cost |-> 0, exit_cost |-> 0, total_cost |-> 0,
     net_pnl |-> 0, net_ret_pct |-> 0,
     start_equity |-> eq, end_equity |-> eq,
     month_key |-> mk, stop_pct |-> NaN, stop_level |-> NaN]

\* a plausible slip: the two sides of the stop exchanged
StopLevel_swapped(signal, entry, stop_pct) ==
    IF signal = "long" THEN FMul(entry, Unit + stop_pct)
    ELSE FMul(entry, Unit - stop_pct)

\* a plausible slip: the stop taken in points, as research_algo.py does
StopLevel_points(signal, entry, stop_pct) ==
    IF signal = "long" THEN entry - stop_pct ELSE entry + stop_pct

\* run(), lines 231-235: the stop level of a trade
StopLevel(signal, entry, stop_pct) ==
    IF signal = "long" THEN FMul(entry, Unit - stop_pct)
    ELSE FMul(entry, Unit + stop_pct)

\* the test of one bar against the stop
Breach(signal, bar, stop_level) ==
    IF signal = "long" THEN bar.low <= stop_level
    ELSE bar.high >= stop_level

\* the for loop over subsequent.iterrows(): the index of the bar at which
\* the loop breaks, 0 when it runs to its end
RECURSIVE ScanStop(_, _, _, _)
ScanStop(subsequent, i, signal, stop_level) ==
    IF i > Len(subsequent) THEN 0
    ELSE IF Breach(signal, subsequent[i], stop_level) THEN i
    ELSE ScanStop(subsequent, i + 1, signal, stop_level)

\* a plausible slip: the entry bar scanned too
Subsequent_from_entry(g) ==
    SortedByTime({r \in g : r.t >= First(g, ENTRY_TIME).t
                           /\ r.t <= First(g, EXIT_TIME).t})

\* run(), lines 239-240: the bars the scan is given: strictly after the
\* entry bar, up to and including the exit bar
Subsequent(g) ==
    SortedByTime({r \in g : r.t > First(g, ENTRY_TIME).t
                           /\ r.t <= First(g, EXIT_TIME).t})

\* the next group of df.groupby("d", sort=True): the next day, in the month
\* of the day before or in the month after it
NextMonth(newMonth) ==
    IF day = 0 THEN 1 ELSE IF newMonth THEN month_key + 1 ELSE month_key

\* the loop has a next group
MoreGroups == pc = "loop" /\ day < MaxDays

NextGroup(newMonth) ==
    /\ day' = day + 1
    /\ month_key' = NextMonth(newMonth)

\* a plausible slip: every trade sized on the starting capital
PositionSize_start(eq, entry) == shares_for_trade(START_EQUITY, entry)

\* run(), line 211: the shares of the session, sized to the running equity
PositionSize(eq, entry) == shares_for_trade(eq, entry)

\* In the actions below  \E x \in {e} : ...  names the value of e once, as
\* the assignment  x = e  to a local variable does.

\* a plausible slip: the day without its bars dropped, as research_algo.py
\* and range_breakout.py drop it
SkipMissing_drop ==
    /\ prog = "backtest"
    /\ MoreGroups
    /\ \E newMonth \in BOOLEAN :
         /\ NextGroup(newMonth)
         /\ monthly_vol' = WithMonth(monthly_vol, NextMonth(newMonth))
    /\ loc' = NoLoc
    /\ UNCHANGED << prog, stop, drop_doji, pc, equity, rows, trades, summary >>
    /\ UNCHANGED costVars

\* run(), lines 173-185: a bar of the three is missing
SkipMissing ==
    /\ prog = "backtest"
    /\ MoreGroups
    /\ \E newMonth \in BOOLEAN, fbs \in Opt(RunFirstBars),
          ens \in Opt(EntryBars), exs \in Opt(ExitBars) :
       \E mk \in {NextMonth(newMonth)}, g \in {Group(fbs, ens, {}, exs)} :
       \E fb \in {{r \in g : r.t = FIRST_BAR_TIME}},
          en \in {{r \in g : r.t = ENTRY_TIME}},
          ex \in {{r \in g : r.t = EXIT_TIME}} :
         /\ NextGroup(newMonth)
         /\ fb = {} \/ en = {} \/ ex = {}
         /\ monthly_vol' = WithMonth(monthly_vol, mk)
         /\ rows' = Append(rows,
                      SkipRow(day + 1, "missing", NaN, NaN, NaN, NaN, NaN,
                              equity, mk))
         /\ loc' = NoLoc
    /\ UNCHANGED << prog, stop, drop_doji, pc, equity, trades, summary >>
    /\ UNCHANGED costVars

\* run(), lines 187-205: the first bar is a doji
SkipDoji ==
    /\ prog = "backtest"
    /\ MoreGroups
    /\ \E newMonth \in BOOLEAN, fb \in RunFirstBars, en \in EntryBars,
          ex \in ExitBars :
       \E mk \in {NextMonth(newMonth)}, g \in {Group({fb}, {en}, {}, {ex})} :
       \E f_open \in {First(g, FIRST_BAR_TIME).open},
          f_close \in {First(g, FIRST_BAR_TIME).close} :
         /\ NextGroup(newMonth)
         /\ IsClose(f_close, f_open)
         /\ monthly_vol' = WithMonth(monthly_vol, mk)
         /\ rows' = Append(rows,
                      SkipRow(day + 1, "doji_skip", f_open, f_close, NaN, NaN,
                              NaN, equity, mk))
         /\ loc' = NoLoc
    /\ UNCHANGED << prog, stop, drop_doji, pc, equity, trades, summary >>
    /\ UNCHANGED costVars

\* run(), lines 207-224: the position is below the minimum lot
SkipTooSmall ==
    /\ prog = "backtest"
    /\ MoreGroups
    /\ \E newMonth \in BOOLEAN, fb \in RunFirstBars, en \in EntryBars,
          ex \in ExitBars :
       \E mk \in {NextMonth(newMonth)}, g \in {Group({fb}, {en}, {}, {ex})} :
       \E f_open \in {First(g, FIRST_BAR_TIME).open},
          f_close \in {First(g, FIRST_BAR_TIME).close},
          entry \in {First(g, ENTRY_TIME).close} :
       \E sh \in {PositionSize(equity, entry)} :
         /\ NextGroup(newMonth)
         /\ ~IsClose(f_close, f_open)
         /\ FRACTIONAL_SHARES /\ sh < MIN_FRACTIONAL_SHARES
         /\ monthly_vol' = WithMonth(monthly_vol, mk)
         /\ rows' = Append(rows,
                      SkipRow(day + 1, "too_small", f_open, f_close, entry, 0,
                              0, equity, mk))
         /\ loc' = NoLoc
    /\ UNCHANGED << prog, stop, drop_doji, pc, equity, trades, summary >>
    /\ UNCHANGED costVars

\* a plausible slip: equity compounded with the gross P&L
Compound_gross(eq, gross_pnl_dol, total_cost) == eq + gross_pnl_dol

\* run(), lines 267-273: net P&L and the new equity
Compound(eq, gross_pnl_dol, total_cost) == eq + (gross_pnl_dol - total_cost)

\* run(), lines 207-286: a trade, from sizing to the ledger row
Trade ==
    /\ prog = "backtest"
    /\ MoreGroups
    /\ \E newMonth \in BOOLEAN, fb \in RunFirstBars, en \in EntryBars,
          ex \in ExitBars :
       \E mk \in {NextMonth(newMonth)},
          f_open \in {fb.open}, f_close \in {fb.close},
          entry \in {en.close}, exit_1130 \in {ex.close} :
       \E signal \in {IF f_close > f_open THEN "long" ELSE "short"},
          sh \in {PositionSize(equity, entry)} :
         /\ NextGroup(newMonth)
         /\ ~IsClose(f_close, f_open)
         /\ ~(FRACTIONAL_SHARES /\ sh < MIN_FRACTIONAL_SHARES)
         /\ \E mids \in MidChoices :
            \E g \in {Group({fb}, {en}, mids, {ex})},
               dir \in {IF signal = "long" THEN 1 ELSE -1},
               \* entry costs
               mv0 \in {WithMonth(monthly_vol, mk)} :
            \E entry_cost_before \in {mv0[mk]} :
            \E entry_cost \in {full_side_cost(sh, entry, PRICING_PLAN,
                                              entry_cost_before)},
               mv1 \in {[mv0 EXCEPT ![mk] = VolAdd(@, sh)]},
               \* stop level and scan
               stop_level \in {StopLevel(signal, entry, stop)},
               subsequent \in {Subsequent(g)} :
            \E hit \in {ScanStop(subsequent, 1, signal, stop_level)} :
            \E exit_price \in {IF hit = 0 THEN exit_1130 ELSE stop_level},
               exit_reason \in {IF hit = 0 THEN "time_exit" ELSE "stop_hit"} :
               \* gross PnL before exit costs
            \E gross_points \in {dir * (exit_price - entry)},
               gross_ret_pct \in {dir * (FDiv(exit_price, entry) - Unit)} :
            \E gross_pnl_dol \in {FMul(sh, gross_points)},
               \* exit costs
               exit_cost_before \in {mv1[mk]} :
            \E exit_cost \in {full_side_cost(sh, exit_price, PRICING_PLAN,
                                             exit_cost_before)},
               mv2 \in {[mv1 EXCEPT ![mk] = VolAdd(@, sh)]} :
            \E total_cost \in {entry_cost + exit_cost} :
            \E net_pnl_dol \in {gross_pnl_dol - total_cost},
               deployed \in {FMul(equity, ALLOC_PCT)} :
            \E net_ret_pct \in {IF deployed > 0
                                THEN FDiv(net_pnl_dol, deployed) ELSE 0},
               start_eq \in {equity},
               end_eq \in {Compound(equity, gross_pnl_dol, total_cost)} :
              /\ monthly_vol' = mv2
              /\ equity' = end_eq
              /\ rows' = Append(rows,
                    [date |-> day + 1, signal |-> signal,
                     first_bar_open |-> f_open, first_bar_close |-> f_close,
                     entry_price |-> entry, exit_price |-> exit_price,
                     exit_reason |-> exit_reason,
                     shares |-> sh,
                     gross_points |-> gross_points,
                     gross_pnl |-> gross_pnl_dol,
                     gross_ret_pct |-> gross_ret_pct,
                     entry_cost |-> entry_cost, exit_cost |-> exit_cost,
                     total_cost |-> total_cost,
                     net_pnl |-> net_pnl_dol, net_ret_pct |-> net_ret_pct,
                     start_equity |-> start_eq, end_equity |-> end_eq,
                     month_key |-> mk,
                     stop_pct |-> stop, stop_level |-> stop_level])
              /\ loc' = [g |-> g, dir |-> dir, entry |-> entry, sh |-> sh,
                         stop_size |-> stop, stop_level |-> stop_level,
                         subsequent |-> subsequent,
                         bar_t |-> IF hit = 0 THEN 0 ELSE subsequent[hit].t,
                         entry_cost_before |-> entry_cost_before,
                         exit_cost_before |-> exit_cost_before]
    /\ UNCHANGED << prog, stop, drop_doji, pc, trades, summary >>
    /\ UNCHANGED costVars

\* ---- run(), lines 288-319: the sorted ledger and the summary ----

\* rows.sort_values("date"): a stable insertion sort
RECURSIVE InsertByDate(_, _)
InsertByDate(sorted, r) ==
    IF sorted = << >> THEN << r >>
    ELSE IF sorted[Len(sorted)].date <= r.date THEN Append(sorted, r)
    ELSE Append(InsertByDate(SubSeq(sorted, 1, Len(sorted) - 1), r),
                sorted[Len(sorted)])

RECURSIVE SortByDate(_)
SortByDate(seq) ==
    IF seq = << >> THEN << >>
    ELSE InsertByDate(SortByDate(SubSeq(seq, 1, Len(seq) - 1)), seq[Len(seq)])

\* end_equity_$.where(notna).ffill(), what is still NaN set to START_EQUITY
RECURSIVE FFill(_, _)
FFill(t, k) ==
    IF k = 0 THEN NaN
    ELSE IF t[k].end_equity # NaN THEN t[k].end_equity ELSE FFill(t, k - 1)

EquityCurve(t) ==
    [k \in 1..Len(t) |-> IF FFill(t, k) = NaN THEN START_EQUITY ELSE FFill(t, k)]

\* equity_curve_$.cummax()
RECURSIVE CumMax(_, _)
CumMax(curve, k) ==
    IF k = 1 THEN curve[1] ELSE Max(CumMax(curve, k - 1), curve[k])

\* dd = equity_curve_$ / rollmax - 1.0; 0/0 is NaN.  rollmax = 0 with a
\* nonzero equity does not occur: an equity <= 0 is never traded again
DrawdownOf(curve) ==
    [k \in 1..Len(curve) |->
        LET q == FDiv(curve[k], CumMax(curve, k))
        IN  IF q = NaN THEN NaN ELSE q - Unit]

\* dd.min(): NaN entries are skipped, NaN when nothing is left
SeriesMin(ser) ==
    LET vals == {ser[k] : k \in 1..Len(ser)} \ {NaN}
    IN  IF vals = {} THEN NaN
        ELSE CHOOSE x \in vals : \A y \in vals : x <= y

Count(t, P(_)) == Cardinality({k \in 1..Len(t) : P(t[k])})

IsTrade(r) == r.signal \in {"long", "short"}

IsWin(r) == IsTrade(r) /\ r.net_pnl > 0

IsLoss(r) == IsTrade(r) /\ r.net_pnl < 0

IsStopHit(r) == r.exit_reason = "stop_hit"

NoSummary ==
    [equity_curve |-> << >>, dd |-> << >>, n_trades |-> 0, wins |-> 0,
     losses |-> 0, ending_equity |-> NaN, total_return_pct |-> NaN,
     max_dd_pct |-> NaN, stops_hit |-> 0]

SummaryOf(t, curve, dd, ddmin) ==
    LET ending_equity == IF Len(t) > 0 THEN curve[Len(t)] ELSE START_EQUITY
    IN  [equity_curve |-> curve, dd |-> dd,
         n_trades |-> Count(t, IsTrade),
         wins |-> Count(t, IsWin), losses |-> Count(t, IsLoss),
         ending_equity |-> ending_equity,
         total_return_pct |->
            IF START_EQUITY > 0
            THEN FMul(FDiv(ending_equity, START_EQUITY) - Unit, 100 * Unit)
            ELSE NaN,
         max_dd_pct |-> IF Len(dd) > 0 /\ ddmin # NaN
                        THEN FMul(ddmin, 100 * Unit) ELSE NaN,
         stops_hit |-> Count(t, IsStopHit)]

\* the loop over the days is over: the ledger is sorted and summarised
Finish ==
    /\ prog = "backtest"
    /\ pc = "loop"
    /\ rows # << >>
    /\ \E t \in {SortByDate(rows)} :
       \E curve \in {EquityCurve(t)} :
       \E dd \in {DrawdownOf(curve)} :
         /\ trades' = t
         /\ summary' = SummaryOf(t, curve, dd, SeriesMin(dd))
    /\ pc' = "done"
    /\ UNCHANGED << prog, stop, drop_doji, day, month_key, equity,
                    monthly_vol, rows, loc >>
    /\ UNCHANGED costVars

\* no day left a row: DataFrame([]).sort_values("date") in run(),
\* DataFrame([]).sort_values("Date") in compute_daily_points() and
\* res_df["Gain Points"] in range_breakout.py raise KeyError
FinishEmpty ==
    /\ prog # "cost"
    /\ pc = "loop"
    /\ rows = << >>
    /\ pc' = "crashed"
    /\ UNCHANGED << prog, stop, drop_doji, day, month_key, equity,
                    monthly_vol, rows, loc, trades, summary >>
    /\ UNCHANGED costVars

\* ------------------------------------------------------------------------
\* src/research_algo.py: compute_daily_points()
\* ------------------------------------------------------------------------

\* AFTER_TIMES: the bar times from 10:00 to 11:30
AFTER_TIMES == (ENTRY_TIME + 1)..EXIT_TIME

\* the level the lows (sign = 1) or the highs (sign = -1) are tested against
PointStop(sign, entry_px, stop_pts) ==
    IF sign = 1 THEN entry_px - stop_pts ELSE entry_px + stop_pts

\* the two for loops over intrawindow.iterrows(): the index of the bar at
\* which the loop breaks, 0 when it runs to its end or when sign = 0
RECURSIVE ScanPoints(_, _, _, _)
ScanPoints(intrawindow, i, sign, level) ==
    IF sign = 0 \/ i > Len(intrawindow) THEN 0
    ELSE IF (sign = 1 /\ intrawindow[i].low <= level)
             \/ (sign = -1 /\ intrawindow[i].high >= level) THEN i
    ELSE ScanPoints(intrawindow, i + 1, sign, level)

\* lines 49-52: no 09:30 bar or no 11:30 bar: the day leaves no row
ResearchSkipMissing ==
    /\ prog = "research"
    /\ MoreGroups
    /\ \E fbs \in Opt(FirstBars), exs \in Opt(ExitBars) :
       \E g \in {Group(fbs, {}, {}, exs)} :
       \E first \in {{r \in g : r.t = FIRST_BAR_TIME}},
          exitb \in {{r \in g : r.t = EXIT_TIME}} :
         /\ first = {} \/ exitb = {}
         /\ day' = day + 1
         /\ loc' = NoLoc
    /\ UNCHANGED << prog, stop, drop_doji, pc, month_key, equity, monthly_vol,
                    rows, trades, summary >>
    /\ UNCHANGED costVars

SignOf(o0930, c0930) ==
    IF c0930 > o0930 THEN 1 ELSE IF c0930 < o0930 THEN -1 ELSE 0

\* lines 73-74: --drop-doji and a doji first bar: the day leaves no row
ResearchDropDoji ==
    /\ prog = "research"
    /\ MoreGroups
    /\ \E fb \in FirstBars, ex \in ExitBars :
         /\ drop_doji /\ SignOf(fb.open, fb.close) = 0
         /\ day' = day + 1
         /\ loc' = NoLoc
    /\ UNCHANGED << prog, stop, drop_doji, pc, month_key, equity, monthly_vol,
                    rows, trades, summary >>
    /\ UNCHANGED costVars

\* lines 54-123: the day's row
ResearchDay ==
    /\ prog = "research"
    /\ MoreGroups
    /\ \E fb \in FirstBars, ex \in ExitBars, mids \in MidChoices :
       \E g \in {Group({fb}, {}, mids, {ex})} :
       \E f \in {First(g, FIRST_BAR_TIME)}, e \in {First(g, EXIT_TIME)} :
       \E o0930 \in {f.open}, c0930 \in {f.close} :
       \E entry_px \in {c0930}, exit_px \in {e.close},
          sign \in {SignOf(o0930, c0930)} :
         /\ ~(drop_doji /\ sign = 0)
         /\ \E intrawindow \in {SortedByTime({r \in g : r.t \in AFTER_TIMES})},
               level \in {PointStop(sign, entry_px, stop)} :
            \E hit \in {ScanPoints(intrawindow, 1, sign, level)} :
            \E stop_hit \in {hit # 0} :
            \E gain_pts \in
                 {IF stop_hit THEN -stop
                  ELSE IF sign = 1 THEN exit_px - entry_px
                  ELSE IF sign = -1 THEN entry_px - exit_px ELSE 0} :
              /\ rows' = Append(rows,
                    [Date |-> day + 1,
                     FirstBar_Open |-> o0930, FirstBar_Close |-> c0930,
                     Entry_Px |-> entry_px,
                     Exit |-> IF stop_hit THEN intrawindow[hit].t ELSE EXIT_TIME,
                     Exit_Px |-> IF stop_hit THEN NaN ELSE exit_px,
                     Sign |-> sign, Stop_Points |-> stop,
                     Stop_Hit |-> stop_hit, Gain_Points |-> gain_pts])
              /\ loc' = [NoLoc EXCEPT !.g = g, !.dir = sign,
                                      !.entry = entry_px,
                                      !.stop_size = stop,
                                      !.stop_level = IF sign = 0 THEN NaN
                                                     ELSE level,
                                      !.subsequent = intrawindow,
                                      !.bar_t = IF stop_hit
                                                THEN intrawindow[hit].t ELSE 0]
         /\ day' = day + 1
    /\ UNCHANGED << prog, stop, drop_doji, pc, month_key, equity, monthly_vol,
                    trades, summary >>
    /\ UNCHANGED costVars

RECURSIVE InsertByDateCol(_, _)
InsertByDateCol(sorted, r) ==
    IF sorted = << >> THEN << r >>
    ELSE IF sorted[Len(sorted)].Date <= r.Date THEN Append(sorted, r)
    ELSE Append(InsertByDateCol(SubSeq(sorted, 1, Len(sorted) - 1), r),
                sorted[Len(sorted)])

\* DataFrame(rows).sort_values("Date")
RECURSIVE SortByDateCol(_)
SortByDateCol(seq) ==
    IF seq = << >> THEN << >>
    ELSE InsertByDateCol(SortByDateCol(SubSeq(seq, 1, Len(seq) - 1)),
                         seq[Len(seq)])

\* Gain_Points.cumsum()
RECURSIVE CumSum(_, _)
CumSum(t, k) == IF k = 0 THEN 0 ELSE CumSum(t, k - 1) + t[k].Gain_Points

\* lines 125-128: the sorted daily table and the cumulative gain
ResearchFinish ==
    /\ prog = "research"
    /\ pc = "loop"
    /\ rows # << >>
    /\ \E t \in {SortByDateCol(rows)} :
         /\ trades' = t
         /\ summary' = [NoSummary EXCEPT
                          !.equity_curve = [k \in 1..Len(t) |-> CumSum(t, k)],
                          !.n_trades = Len(t)]
    /\ pc' = "done"
    /\ UNCHANGED << prog, stop, drop_doji, day, month_key, equity,
                    monthly_vol, rows, loc >>
    /\ UNCHANGED costVars

\* ------------------------------------------------------------------------
\* src/range_breakout.py
\* ------------------------------------------------------------------------

\* ENTRY_TIME = "09:30:00" and EXIT_TIME = "11:30:00" of range_breakout.py
RB_ENTRY_TIME == FIRST_BAR_TIME

RB_EXIT_TIME == EXIT_TIME

\* round(v, 2)
Round2(v) == Sgn(v) * RoundDiv(Abs(v), 100) * 100

\* lines 37-42: target and stop of the 1:1 setup
RangeLevels(direction, entry, x) ==
    IF direction = "LONG" THEN [tp |-> entry + x, sl |-> entry - x]
    ELSE [tp |-> entry - x, sl |-> entry + x]

\* a plausible slip: the stop tested before the target
RECURSIVE ScanRange_stop_first(_, _, _, _)
ScanRange_stop_first(session, i, direction, lv) ==
    IF i > Len(session) THEN [i |-> 0, result |-> "NO HIT"]
    ELSE IF direction = "LONG"
    THEN IF session[i].low <= lv.sl THEN [i |-> i, result |-> "HIT SL"]
         ELSE IF session[i].high >= lv.tp THEN [i |-> i, result |-> "HIT TP"]
         ELSE ScanRange_stop_first(session, i + 1, direction, lv)
    ELSE IF session[i].high >= lv.sl THEN [i |-> i, result |-> "HIT SL"]
         ELSE IF session[i].low <= lv.tp THEN [i |-> i, result |-> "HIT TP"]
         ELSE ScanRange_stop_first(session, i + 1, direction, lv)

\* lines 47-63: the loop over session.iterrows(): the bar at which the loop
\* breaks and the result there, index 0 when the loop runs to its end
RECURSIVE ScanRange(_, _, _, _)
ScanRange(session, i, direction, lv) ==
    IF i > Len(session) THEN [i |-> 0, result |-> "NO HIT"]
    ELSE IF direction = "LONG"
    THEN IF session[i].high >= lv.tp THEN [i |-> i, result |-> "HIT TP"]
         ELSE IF session[i].low <= lv.sl THEN [i |-> i, result |-> "HIT SL"]
         ELSE ScanRange(session, i + 1, direction, lv)
    ELSE IF session[i].low <= lv.tp THEN [i |-> i, result |-> "HIT TP"]
         ELSE IF session[i].high >= lv.sl THEN [i |-> i, result |-> "HIT SL"]
         ELSE ScanRange(session, i + 1, direction, lv)

\* lines 22-24: no 09:30 bar: the day leaves no row
RangeSkipMissing ==
    /\ prog = "range"
    /\ MoreGroups
    /\ day' = day + 1
    /\ loc' = NoLoc
    /\ UNCHANGED << prog, stop, drop_doji, pc, month_key, equity, monthly_vol,
                    rows, trades, summary >>
    /\ UNCHANGED costVars

\* lines 26-75: the day's result
RangeDay ==
    /\ prog = "range"
    /\ MoreGroups
    /\ \E fb \in FirstBars, ens \in Opt(EntryBars), mids \in MidChoices,
          exs \in Opt(ExitBars) :
       \E g \in {Group({fb}, ens, mids, exs)} :
       \E first \in {First(g, RB_ENTRY_TIME)} :
       \E x \in {first.high - first.low},
          direction \in {IF first.close > first.open THEN "LONG" ELSE "SHORT"},
          entry \in {first.close} :
       \E lv \in {RangeLevels(direction, entry, x)},
          session \in {SortedByTime({r \in g : r.t > RB_ENTRY_TIME
                                              /\ r.t <= RB_EXIT_TIME})} :
       \E scan \in {ScanRange(session, 1, direction, lv)} :
       \E gain \in {IF scan.result = "HIT TP" THEN x
                    ELSE IF scan.result = "HIT SL" THEN -x ELSE 0} :
         /\ rows' = Append(rows,
               [Date |-> day + 1, Direction |-> direction,
                Open |-> first.open, Close |-> first.close,
                Range |-> Round2(x), TP |-> Round2(lv.tp), SL |-> Round2(lv.sl),
                Result |-> scan.result, Gain_Points |-> Round2(gain)])
         /\ loc' = [NoLoc EXCEPT !.g = g,
                                 !.dir = IF direction = "LONG" THEN 1 ELSE -1,
                                 !.entry = entry,
                                 !.stop_size = x, !.stop_level = lv.sl,
                                 !.subsequent = session,
                                 !.bar_t = IF scan.i = 0 THEN 0
                                           ELSE session[scan.i].t]
         /\ day' = day + 1
    /\ UNCHANGED << prog, stop, drop_doji, pc, month_key, equity, monthly_vol,
                    trades, summary >>
    /\ UNCHANGED costVars

\* lines 78-89: the result table and the cumulative gain
RangeFinish ==
    /\ prog = "range"
    /\ pc = "loop"
    /\ rows # << >>
    /\ trades' = rows
    /\ summary' = [NoSummary EXCEPT
                     !.equity_curve = [k \in 1..Len(rows) |-> CumSum(rows, k)],
                     !.n_trades = Len(rows)]
    /\ pc' = "done"
    /\ UNCHANGED << prog, stop, drop_doji, day, month_key, equity,
                    monthly_vol, rows, loc >>
    /\ UNCHANGED costVars

\* ------------------------------------------------------------------------
\* Specification of the scripts
\* ------------------------------------------------------------------------

\* --stop of backtest.py: 0, 0.5% (the default), 100%
StopPcts == {0, 50, 10000}

\* --stop of research_algo.py: 0, 0.5, 1 point (the default)
StopPts == {0, 5000, 10000}

NoCall ==
    [shares |-> 0, price |-> 0, plan |-> "pro_fixed", earlier |-> VolZero,
     monthly |-> VolZero]

NoLeg == [done |-> FALSE, raised |-> FALSE, rate |-> 0, commission |-> 0,
          cost |-> 0]

InitRun ==
    /\ pc = "loop"
    /\ day = 0
    /\ month_key = 0
    /\ equity = START_EQUITY
    /\ monthly_vol = << >>
    /\ rows = << >>
    /\ loc = NoLoc
    /\ trades = << >>
    /\ summary = NoSummary

Init ==
    /\ \/ prog = "backtest" /\ stop \in StopPcts /\ drop_doji = FALSE
       \/ prog = "research" /\ stop \in StopPts /\ drop_doji \in BOOLEAN
       \/ prog = "range" /\ stop = NaN /\ drop_doji = FALSE
    /\ InitRun
    /\ call = NoCall
    /\ first_leg = NoLeg
    /\ later_leg = NoLeg

Next ==
    \/ SkipMissing
    \/ SkipDoji
    \/ SkipTooSmall
    \/ Trade
    \/ Finish
    \/ FinishEmpty
    \/ ResearchSkipMissing
    \/ ResearchDropDoji
    \/ ResearchDay
    \/ ResearchFinish
    \/ RangeSkipMissing
    \/ RangeDay
    \/ RangeFinish

Spec == Init /\ [][Next]_vars

\* ------------------------------------------------------------------------
\* Specification of the cost model: two legs of one month, an earlier one
\* and a later one, with the same shares, price and plan
\* ------------------------------------------------------------------------

\* shares: 0, 1, 500, 1000
CostShares == {0, 10000, 5000000, 10000000}

\* price: -1, 0.01, 50, 100
CostPrices == {-10000, 100, 500000, 1000000}

CostPlans == Plans \cup {"ibkr_pro"}

\* monthly volumes at and next to the tier thresholds
CostVolumes ==
    {VolZero} \cup
    {[w |-> PT_TIERS[i].threshold - 1, f |-> Unit - 1] : i \in 1..4} \cup
    {[w |-> PT_TIERS[i].threshold, f |-> 0] : i \in 1..4} \cup
    {[w |-> PT_TIERS[i].threshold, f |-> 1] : i \in 1..4}

VolLe(a, b) == a.w < b.w \/ (a.w = b.w /\ a.f <= b.f)

\* one call of full_side_cost and what it returns; an unknown plan raises
\* ValueError in commission_one_side once shares and price are positive
LegOf(shares, price, plan, monthly_shares_before) ==
    IF plan \notin Plans
    THEN IF shares <= 0 \/ price <= 0
         THEN [done |-> TRUE, raised |-> FALSE, rate |-> NaN,
               commission |-> 0,
               cost |-> FMul(SLIPPAGE_PER_SHARE, shares)
                          + FMul(EXTRA_FEES_PER_SHARE, shares)]
         ELSE [done |-> TRUE, raised |-> TRUE, rate |-> NaN,
               commission |-> NaN, cost |-> NaN]
    ELSE [done |-> TRUE, raised |-> FALSE,
          rate |-> IF plan = "pro_tiered" /\ shares > 0 /\ price > 0
                   THEN rate_for_tiered(monthly_shares_before) ELSE NaN,
          commission |-> commission_one_side(shares, price, plan,
                                             monthly_shares_before),
          cost |-> full_side_cost(shares, price, plan, monthly_shares_before)]

EarlierLeg ==
    /\ prog = "cost"
    /\ ~first_leg.done
    /\ first_leg' = LegOf(call.shares, call.price, call.plan, call.earlier)
    /\ UNCHANGED << call, later_leg >>
    /\ UNCHANGED runVars

LaterLeg ==
    /\ prog = "cost"
    /\ ~later_leg.done
    /\ later_leg' = LegOf(call.shares, call.price, call.plan, call.monthly)
    /\ UNCHANGED << call, first_leg >>
    /\ UNCHANGED runVars

InitCost ==
    /\ prog = "cost"
    /\ stop = NaN
    /\ drop_doji = FALSE
    /\ InitRun
    /\ call \in {c \in [shares : CostShares, price : CostPrices,
                        plan : CostPlans, earlier : CostVolumes,
                        monthly : CostVolumes] :
                   VolLe(c.earlier, c.monthly)}
    /\ first_leg = NoLeg
    /\ later_leg = NoLeg

NextCost == EarlierLeg \/ LaterLeg

SpecCost == InitCost /\ [][NextCost]_vars

\* ------------------------------------------------------------------------
\* Properties
\* ------------------------------------------------------------------------

LastRow == rows[Len(rows)]

SkipReasons == {"missing", "doji_skip", "too_small"}

\* the cumulative volume of month m, 0 for a month not yet on the books
VolOf(mv, m) == IF m \in DOMAIN mv THEN mv[m] ELSE VolZero

\* the bars of the last session inside the scan window of run()
Window == {b \in loc.g : b.t > ENTRY_TIME /\ b.t <= EXIT_TIME}

\* C1: in backtest.run a session is recorded with signal skip exactly when
\* its exit_reason is missing, doji_skip or too_small; the row of such a
\* session has net P&L, gross P&L, entry cost and exit cost 0 and an end
\* equity equal to its start equity, and the running equity and every
\* month's volume are the same after the session as before it.
C1_SkipLeavesEquityAndVolume ==
    [][(prog = "backtest" /\ Len(rows') = Len(rows) + 1) =>
        LET r == rows'[Len(rows')]
        IN  /\ (r.signal = "skip") <=> (r.exit_reason \in SkipReasons)
            /\ r.signal = "skip" =>
                 /\ r.net_pnl = 0 /\ r.gross_pnl = 0
                 /\ r.entry_cost = 0 /\ r.exit_cost = 0
                 /\ r.start_equity = equity
                 /\ r.end_equity = r.start_equity
                 /\ equity' = equity
                 /\ \A m \in DOMAIN monthly_vol \cup DOMAIN monthly_vol' :
                      VolOf(monthly_vol', m) = VolOf(monthly_vol, m)]_vars

\* C1 witness: an undersized session recorded after a trade that changed the
\* equity and put volume on the books
C1_Witness ==
    /\ prog = "backtest"
    /\ Len(rows) = 2
    /\ rows[1].signal # "skip"
    /\ LastRow.signal = "skip" /\ LastRow.exit_reason = "too_small"
    /\ equity # START_EQUITY
    /\ LastRow.end_equity = equity
    /\ \E m \in DOMAIN monthly_vol : monthly_vol[m] # VolZero

\* the ledger's net P&L values summed up from START_EQUITY, row by row
RECURSIVE ReplayEquity(_, _)
ReplayEquity(t, k) ==
    IF k = 0 THEN START_EQUITY ELSE ReplayEquity(t, k - 1) + t[k].net_pnl

\* C2: after any sequence of sessions of backtest.run, the running sum of
\* the rows' net P&L from START_EQUITY reproduces every row's end equity,
\* skipped rows included, in the rows as appended and in the sorted ledger.
C2_ReplayReproducesEquity ==
    prog = "backtest" =>
        /\ \A k \in 1..Len(rows) : rows[k].end_equity = ReplayEquity(rows, k)
        /\ \A k \in 1..Len(trades) :
             trades[k].end_equity = ReplayEquity(trades, k)

\* C2 witness: a finished ledger of a trade with a nonzero net P&L followed
\* by a skipped session
C2_Witness ==
    /\ prog = "backtest" /\ pc = "done"
    /\ Len(trades) = 2
    /\ trades[1].signal # "skip" /\ trades[1].net_pnl # 0
    /\ trades[1].total_cost > 0
    /\ trades[2].signal = "skip"
    /\ trades[2].end_equity = START_EQUITY + trades[1].net_pnl

\* C3: in backtest.run every session starts on the end equity of the session
\* before it (START_EQUITY for the first), the shares of a non-skipped
\* session are sized on that equity, and its end equity is that equity plus
\* the gross P&L less the entry cost and the exit cost: one update for a
\* non-skipped session, after both costs are known; the running equity is
\* the end equity of the last row.
C3_SizedOnCarriedEquity ==
    prog = "backtest" =>
        /\ equity = (IF rows = << >> THEN START_EQUITY ELSE LastRow.end_equity)
        /\ \A k \in 1..Len(rows) :
             LET r == rows[k]
                 prev == IF k = 1 THEN START_EQUITY ELSE rows[k - 1].end_equity
             IN  /\ r.start_equity = prev
                 /\ r.signal # "skip" =>
                      /\ r.shares = shares_for_trade(prev, r.entry_price)
                      /\ r.net_pnl = r.gross_pnl - (r.entry_cost + r.exit_cost)
                      /\ r.end_equity = prev + r.net_pnl

\* C3 witness: day 1 nets +5 on 100, day 2 is sized on 105 and not on 100
C3_Witness ==
    /\ prog = "backtest"
    /\ Len(rows) = 2
    /\ rows[1].start_equity = START_EQUITY /\ rows[1].net_pnl = 5 * Unit
    /\ rows[2].signal # "skip"
    /\ rows[2].start_equity = 105 * Unit
    /\ rows[2].shares = shares_for_trade(105 * Unit, rows[2].entry_price)
    /\ rows[2].shares # shares_for_trade(START_EQUITY, rows[2].entry_price)

\* C4: in every script, a session that opens a position with a stop size
\* above 0 (stop_pct, stop_pts, or the range of the first bar) has its stop
\* level strictly below the entry price when long and strictly above it
\* when short; in backtest.run this holds of every row of the ledger.
C4_StopOnLosingSide ==
    /\ (loc.dir # 0 /\ loc.stop_level # NaN /\ loc.stop_size > 0) =>
         /\ loc.dir = 1 => loc.stop_level < loc.entry
         /\ loc.dir = -1 => loc.stop_level > loc.entry
    /\ prog = "backtest" =>
         \A k \in 1..Len(rows) :
            (rows[k].signal # "skip" /\ rows[k].stop_pct > 0) =>
               /\ rows[k].signal = "long" =>
                    rows[k].stop_level < rows[k].entry_price
               /\ rows[k].signal = "short" =>
                    rows[k].stop_level > rows[k].entry_price

\* C4 witness: a short trade of backtest.run with the default stop of 0.5%
C4_Witness ==
    /\ prog = "backtest" /\ stop = 50
    /\ rows # << >>
    /\ LastRow.signal = "short"
    /\ LastRow.stop_level > LastRow.entry_price
    /\ loc.dir = -1 /\ loc.stop_level = LastRow.stop_level

\* the 1% cap on the value of the call's trade
CapOf(fraction) == FMul(fraction, FMul(call.price, call.shares))

\* C5: for shares > 0 and price > 0 and any monthly volume, the commission
\* of the pro_fixed and pro_tiered plans is at most 1% of the trade value,
\* also when the per-order minimum is above that cap; the lite plan charges
\* max(rate * shares, minimum) with no cap.
C5_CommissionCapped ==
    \A leg \in {first_leg, later_leg} :
        (leg.done /\ call.shares > 0 /\ call.price > 0) =>
            /\ call.plan = "pro_fixed" =>
                 ~leg.raised /\ leg.commission <= CapOf(PF_MAX_RATE_OF_TRADE)
            /\ call.plan = "pro_tiered" =>
                 ~leg.raised /\ leg.commission <= CapOf(PT_MAX_RATE_OF_TRADE)
            /\ call.plan = "lite" =>
                 /\ ~leg.raised
                 /\ leg.commission =
                      Max(FMul(LITE_RATE_PER_SHARE, call.shares),
                          LITE_MIN_PER_ORDER)

\* C5 witness: a pro_fixed order whose minimum of 1.00 is above 1% of its
\* value, charged the cap
C5_Witness ==
    /\ later_leg.done
    /\ call.plan = "pro_fixed" /\ call.shares > 0 /\ call.price > 0
    /\ PF_MIN_PER_ORDER > CapOf(PF_MAX_RATE_OF_TRADE)
    /\ later_leg.commission = CapOf(PF_MAX_RATE_OF_TRADE)

\* C7: under the pro_tiered plan the rate is that of the first tier whose
\* threshold is >= the monthly volume before the leg; the rate of a later
\* leg of the month is never above that of an earlier one, and a leg after
\* the volume has passed the first threshold has a strictly lower rate than
\* the first leg of the month.
C7_TierRate ==
    (first_leg.done /\ later_leg.done /\ call.plan = "pro_tiered"
       /\ call.shares > 0 /\ call.price > 0) =>
        /\ \E i \in 1..Len(PT_TIERS) :
             /\ VolLeq(call.monthly, PT_TIERS[i].threshold)
             /\ \A j \in 1..(i - 1) :
                  ~VolLeq(call.monthly, PT_TIERS[j].threshold)
             /\ later_leg.rate = PT_TIERS[i].rate
        /\ later_leg.rate <= first_leg.rate
        /\ (call.earlier = VolZero
              /\ ~VolLeq(call.monthly, PT_TIERS[1].threshold)) =>
             later_leg.rate < first_leg.rate

\* C7 witness: 1000 shares as the first leg of the month and again just
\* after 300 000 shares: a lower rate and a lower commission
C7_Witness ==
    /\ first_leg.done /\ later_leg.done
    /\ call.plan = "pro_tiered" /\ call.shares = 1000 * Unit
    /\ call.price > 0
    /\ call.earlier = VolZero
    /\ call.monthly = [w |-> PT_TIERS[1].threshold, f |-> 1]
    /\ first_leg.rate = PT_TIERS[1].rate
    /\ later_leg.rate = PT_TIERS[2].rate
    /\ later_leg.commission < first_leg.commission

NonDecreasing(curve) ==
    \A k \in 1..(Len(curve) - 1) : curve[k] <= curve[k + 1]

\* C6: for every ledger of backtest.run the maximum drawdown is a number
\* <= 0, and it is 0 when the equity curve never decreases.
C6_DrawdownBound ==
    (prog = "backtest" /\ pc = "done") =>
        /\ summary.max_dd_pct # NaN
        /\ summary.max_dd_pct <= 0
        /\ NonDecreasing(summary.equity_curve) => summary.max_dd_pct = 0

\* the bars of the window that breach the stop of the last row
Breaching ==
    {b \in Window : IF LastRow.signal = "long"
                    THEN b.low <= LastRow.stop_level
                    ELSE b.high >= LastRow.stop_level}

\* C8: a non-skipped session of backtest.run closes once, with reason
\* stop_hit or time_exit; with stop_hit exactly when a bar after the entry
\* bar and up to the exit bar breaches the stop, and then at the stop level
\* and at the first such bar; otherwise at the close of the exit bar.
C8_StopOrTimeExit ==
    (prog = "backtest" /\ rows # << >> /\ LastRow.signal # "skip") =>
        /\ Len(rows) = day
        /\ LastRow.exit_reason \in {"stop_hit", "time_exit"}
        /\ (LastRow.exit_reason = "stop_hit") <=> (Breaching # {})
        /\ Breaching # {} =>
             /\ LastRow.exit_price = LastRow.stop_level
             /\ \E b \in Breaching :
                  /\ \A c \in Breaching : b.t <= c.t
                  /\ loc.bar_t = b.t
        /\ Breaching = {} =>
             /\ LastRow.exit_price = First(loc.g, EXIT_TIME).close
             /\ loc.bar_t = 0

\* C8 witness: a short trade stopped at the bar after the entry bar, with
\* the exit bar breaching the stop too
C8_Witness ==
    /\ prog = "backtest" /\ rows # << >>
    /\ LastRow.signal = "short" /\ LastRow.exit_reason = "stop_hit"
    /\ loc.bar_t = ENTRY_TIME + 1
    /\ First(loc.g, EXIT_TIME).high >= LastRow.stop_level
    /\ LastRow.exit_price = LastRow.stop_level

\* the last row is the scenario: first bar 100 -> 101, entry at 100.5,
\* stop_pct 0.005, and a position was opened
Scenario ==
    /\ prog = "backtest" /\ rows # << >>
    /\ stop = 50
    /\ LastRow.first_bar_open = 100 * Unit
    /\ LastRow.first_bar_close = 101 * Unit
    /\ LastRow.entry_price = 1005000
    /\ LastRow.signal # "skip"

ScenarioWith(level) ==
    Scenario =>
        /\ LastRow.signal = "long"
        /\ LastRow.stop_level = level
        /\ (\E b \in Window : b.low <= level) =>
             /\ LastRow.exit_reason = "stop_hit"
             /\ LastRow.exit_price = level
        /\ ~(\E b \in Window : b.low <= level) =>
             /\ LastRow.exit_reason = "time_exit"
             /\ LastRow.exit_price = First(loc.g, EXIT_TIME).close

\* C9 as stated: in the scenario the stop level is 100.0025, the exit is a
\* stop_hit at 100.0025 if a later bar's low is <= 100.0025, and a
\* time_exit at the exit bar's close otherwise.
C9_AsStated == ScenarioWith(1000025)

\* C9 amended: in the scenario the signal is long and the stop level is
\* 99.9975 = 100.5 * (1 - 0.005); the exit is a stop_hit at 99.9975 if a
\* bar of the window has a low <= 99.9975, and a time_exit at the exit
\* bar's close otherwise.
C9_StopAt999975 == ScenarioWith(999975)

\* C9 witness: the scenario stopped out at 99.9975
C9_Witness ==
    /\ Scenario
    /\ LastRow.exit_reason = "stop_hit"
    /\ LastRow.exit_price = 999975
    /\ \E b \in Window : b.low = 999975

C11_SignalFromFirstBar ==
    /\ prog = "backtest" =>
         \A k \in 1..Len(rows) :
            rows[k].exit_reason \notin {"missing", "too_small"} =>
               LET o == rows[k].first_bar_open
                   c == rows[k].first_bar_close
               IN  /\ c > o => rows[k].signal = "long"
                   /\ c < o => rows[k].signal = "short"
                   /\ c = o => rows[k].signal = "skip" /\ rows[k].shares = 0
    /\ prog = "research" =>
         \A k \in 1..Len(rows) :
            LET o == rows[k].FirstBar_Open
                c == rows[k].FirstBar_Close
            IN  /\ c > o => rows[k].Sign = 1
                /\ c < o => rows[k].Sign = -1
                /\ c = o => /\ rows[k].Sign = 0
                            /\ ~rows[k].Stop_Hit
                            /\ rows[k].Gain_Points = 0
    /\ prog = "range" =>
         \A k \in 1..Len(rows) :
            LET o == rows[k].Open
                c == rows[k].Close
            IN  /\ c > o => rows[k].Direction = "LONG"
                /\ c < o => rows[k].Direction = "SHORT"
                /\ c = o => rows[k].Direction \notin {"LONG", "SHORT"}

\* a volume counted in units of 1/10000 share, and back
VolUnits(v) == v.w * Unit + v.f

Shares(u) == [w |-> u \div Unit, f |-> u % Unit]

\* C12: in backtest.run no month's volume ever decreases; a non-skipped
\* session computes its entry cost from the month's volume before the
\* trade, advances the volume by the shares, computes its exit cost from
\* the advanced volume and advances the volume by the shares again: its
\* month gains 2 * shares and every other month is left as it was.
C12_VolumePerLeg ==
    [][prog = "backtest" =>
        /\ \A m \in DOMAIN monthly_vol :
             /\ m \in DOMAIN monthly_vol'
             /\ VolLe(monthly_vol[m], monthly_vol'[m])
        /\ (Len(rows') = Len(rows) + 1
              /\ rows'[Len(rows')].signal # "skip") =>
             LET r == rows'[Len(rows')]
                 mk == r.month_key
                 before == VolOf(monthly_vol, mk)
                 advanced == Shares(VolUnits(before) + r.shares)
             IN  /\ r.shares > 0
                 /\ loc'.entry_cost_before = before
                 /\ r.entry_cost =
                      full_side_cost(r.shares, r.entry_price, PRICING_PLAN,
                                     before)
                 /\ loc'.exit_cost_before = advanced
                 /\ r.exit_cost =
                      full_side_cost(r.shares, r.exit_price, PRICING_PLAN,
                                     advanced)
                 /\ VolUnits(monthly_vol'[mk]) =
                      VolUnits(before) + 2 * r.shares
                 /\ \A m \in (DOMAIN monthly_vol \cup DOMAIN monthly_vol')
                               \ {mk} :
                      VolOf(monthly_vol', m) = VolOf(monthly_vol, m)]_vars

\* C12 witness: the second trade of a month, its legs costed from the
\* volume after the first trade and from that volume plus its own shares
C12_Witness ==
    /\ prog = "backtest"
    /\ Len(rows) = 2
    /\ rows[1].signal # "skip" /\ rows[2].signal # "skip"
    /\ rows[1].month_key = rows[2].month_key
    /\ rows[1].shares > 0 /\ rows[2].shares > 0
    /\ VolUnits(loc.entry_cost_before) = 2 * rows[1].shares
    /\ VolUnits(loc.exit_cost_before) = 2 * rows[1].shares + rows[2].shares
    /\ VolUnits(monthly_vol[rows[2].month_key]) =
         2 * rows[1].shares + 2 * rows[2].shares

\* the bars of the last session inside the scan window of range_breakout.py
RangeWindow == {b \in loc.g : b.t > RB_ENTRY_TIME /\ b.t <= RB_EXIT_TIME}

\* target and stop of the last session: one range away from the entry
TargetLevel == loc.entry + loc.dir * loc.stop_size

StopLossLevel == loc.entry - loc.dir * loc.stop_size

HitsTarget(b) ==
    IF loc.dir = 1 THEN b.high >= TargetLevel ELSE b.low <= TargetLevel

HitsStop(b) ==
    IF loc.dir = 1 THEN b.low <= StopLossLevel ELSE b.high >= StopLossLevel

\* C13: in range_breakout.py a session closes at the first bar of the scan
\* window that breaches the target or the stop, as a target hit when that
\* bar breaches the target (also when it breaches the stop as well) and as
\* a stop hit otherwise, long or short; with no such bar nothing is hit.
C13_TargetBeforeStop ==
    (prog = "range" /\ rows # << >> /\ loc.dir # 0) =>
        LET either == {b \in RangeWindow : HitsTarget(b) \/ HitsStop(b)}
        IN  /\ either = {} => LastRow.Result = "NO HIT" /\ loc.bar_t = 0
            /\ either # {} =>
                 \E b \in either :
                    /\ \A c \in either : b.t <= c.t
                    /\ loc.bar_t = b.t
                    /\ LastRow.Result =
                         (IF HitsTarget(b) THEN "HIT TP" ELSE "HIT SL")

\* C13 witness: a short session after a long one, both closed as target
\* hits, the short one at a bar that breaches the target and the stop while
\* a later bar of the window breaches a level too
C13_Witness ==
    /\ prog = "range"
    /\ Len(rows) = 2
    /\ rows[1].Direction = "LONG" /\ rows[1].Result = "HIT TP"
    /\ rows[2].Direction = "SHORT" /\ rows[2].Result = "HIT TP"
    /\ loc.dir = -1 /\ loc.stop_size > 0
    /\ \E b \in RangeWindow :
         /\ b.t = loc.bar_t
         /\ HitsTarget(b) /\ HitsStop(b)
    /\ \E c \in RangeWindow : c.t > loc.bar_t /\ HitsStop(c)

\* C14: a run of backtest.py or research_algo.py with a stop size <= 0 ends
\* in a fatal error before or at the first use of the stop: it does not run
\* to its end, and it leaves no row of a session that used the stop.
C14_NonPositiveStopRejected ==
    (prog \in {"backtest", "research"} /\ stop <= 0) =>
        /\ pc # "done"
        /\ prog = "backtest" =>
             \A k \in 1..Len(rows) : rows[k].stop_level = NaN
        /\ prog = "research" =>
             \A k \in 1..Len(rows) : rows[k].Sign = 0

\* C15: in backtest.run, once the running equity is <= 0 after a session,
\* every later session is recorded as a skip (missing, doji_skip or
\* too_small) with no shares, and the equity and every month's volume stay
\* as they are: a non-positive equity is absorbing.
C15_NonPositiveEquityAbsorbing ==
    [][(prog = "backtest" /\ rows # << >> /\ equity <= 0) =>
        /\ equity' = equity
        /\ \A m \in DOMAIN monthly_vol \cup DOMAIN monthly_vol' :
             VolOf(monthly_vol', m) = VolOf(monthly_vol, m)
        /\ Len(rows') = Len(rows) + 1 =>
             /\ rows'[Len(rows')].signal = "skip"
             /\ rows'[Len(rows')].exit_reason \in SkipReasons
             /\ rows'[Len(rows')].shares = 0
             /\ rows'[Len(rows')].end_equity = equity]_vars

\* C15 witness: a first session that leaves the equity below 0, then a
\* session with a green first bar and a good entry price, left untraded
C15_Witness ==
    /\ prog = "backtest"
    /\ Len(rows) = 2
    /\ rows[1].signal # "skip" /\ rows[1].end_equity < 0
    /\ rows[2].exit_reason = "too_small"
    /\ rows[2].first_bar_close > rows[2].first_bar_open
    /\ rows[2].entry_price > 0
    /\ equity = rows[1].end_equity

====
